---------------------------- MODULE Spec2Model ----------------------------
(***************************************************************************)
(* Model of DemandForecastAgent (src/agents/demand_forecast_agent.py): the *)
(* hierarchical demand-forecasting engine.                                 *)
(*                                                                         *)
(* Floats are tagged records: a finite number carries its value in         *)
(* thousandths (12.345 is Num(12345)); NaN and the two infinities are      *)
(* values of their own.  Python's None is the record NoneV.                *)
(* The statistics libraries (ARIMA, ExponentialSmoothing,                  *)
(* seasonal_decompose, numpy) are black boxes: whether a fit raises and    *)
(* which number it yields is a nondeterministic choice from a library      *)
(* profile (Lib), while every guard, loop, try/except and counter update   *)
(* around them is modelled as the code has it.                             *)
(***************************************************************************)
EXTENDS Integers, Sequences, FiniteSets, TLC

VARIABLES
    model_performance,  \* self.model_performance: method key -> counters
    forecast_history,   \* self.forecast_history: list of history entries
    last_forecast,      \* self.last_forecast: None or a float
    model,              \* self.model: None or the last primary ARIMA fit
    now,                \* datetime.now() as a logical clock
    call,               \* the last operation: its input, its steps, its result
    stored,             \* ghost: every value stored since construction/reset
    calls,              \* ghost: number of forecast() calls made
    succeeded,          \* ghost: what the last successful forecast() returned
    was_reset,          \* ghost: reset_performance_tracking() was called
    valid_calls,        \* ghost: forecast() calls on valid input since
                        \* construction or the last reset
    threads             \* where a forecast() call and a report call running
                        \* in two threads stand, and their local variables

vars == <<model_performance, forecast_history, last_forecast, model, now,
          call, stored, calls, succeeded, was_reset, valid_calls, threads>>

---------------------------------------------------------------------------
(* Bounds of the model *)

MaxCalls == 2
MaxFill == 15
MaxLongCalls == 150
MaxPat == 3
MaxRichFill == 5
MaxHist == 6
MaxReportCalls == 11
MaxSeries == 37
MaxInterleavedStores == 102

---------------------------------------------------------------------------
(* Floats and None *)

NoneV == [kind |-> "none", val |-> 0]
NaN == [kind |-> "nan", val |-> 0]
PosInf == [kind |-> "inf", val |-> 1]
NegInf == [kind |-> "inf", val |-> -1]
Num(v) == [kind |-> "num", val |-> v]

IsNone(x) == x.kind = "none"
IsNaN(x) == x.kind = "nan"

\* x > 0 on floats (False for NaN, as in Python)
GtZero(x) == (x.kind = "num" /\ x.val > 0) \/ x = PosInf

\* n / d rounded to the nearest integer, ties to even (n >= 0, d > 0)
RoundDiv(n, d) ==
    LET q == n \div d
        r == n % d
    IN  IF 2 * r < d THEN q
        ELSE IF 2 * r > d THEN q + 1
        ELSE IF q % 2 = 0 THEN q ELSE q + 1

\* round(x, 2): thousandths to the nearest hundredth, ties to even
Round2(x) ==
    IF x.kind # "num" THEN x
    ELSE IF x.val >= 0 THEN Num(10 * RoundDiv(x.val, 10))
    ELSE Num(-10 * RoundDiv(-x.val, 10))

\* max(0, x): Python returns the first maximal argument, so x only if x > 0
Max0Mut(x) == x
Max0(x) == IF GtZero(x) THEN x ELSE Num(0)

---------------------------------------------------------------------------
(* Input tables.  A cell of the 'orders' column is a whole number or        *)
(* missing (NaN, or text that pd.to_numeric(errors='coerce') turns to NaN). *)

NA == [na |-> TRUE, v |-> 0]
Cell(v) == [na |-> FALSE, v |-> v]

FillCell == Cell(7)
DirtyCells == {NA, Cell(-3), Cell(0), Cell(1000)}

\* the column of a table: a leading pattern, then `fill` ordinary rows
Rows(inp) == inp.pat \o [i \in 1..inp.fill |-> FillCell]

NoneInput == [kind |-> "none", pat |-> <<>>, fill |-> 0]
NotFrameInput == [kind |-> "notframe", pat |-> <<>>, fill |-> 0]
NoColumnInput == [kind |-> "nocol", pat |-> <<>>, fill |-> 1]
Frame(p, k) == [kind |-> "frame", pat |-> p, fill |-> k]

---------------------------------------------------------------------------
(* _prepare_and_validate_data *)

MinPoints == 5

\* the cells of s that are not missing, as numbers (dropna)
DropNA(s) ==
    LET F[i \in 0..Len(s)] ==
            IF i = 0 THEN <<>>
            ELSE IF s[i].na THEN F[i - 1] ELSE Append(F[i - 1], s[i].v)
    IN  F[Len(s)]

\* orders_data[orders_data >= 0]
DropNegative(s) ==
    LET F[i \in 0..Len(s)] ==
            IF i = 0 THEN <<>>
            ELSE IF s[i] >= 0 THEN Append(F[i - 1], s[i]) ELSE F[i - 1]
    IN  F[Len(s)]

\* orders_data.replace(0, 1)
ReplaceZeroMut(s) == s
ReplaceZero(s) == [i \in 1..Len(s) |-> IF s[i] = 0 THEN 1 ELSE s[i]]

\* orders_data.isna().sum()
CountNA(s) == Cardinality({i \in 1..Len(s) : s[i].na})

\* (orders_data < 0).sum()
CountNegative(s) == Cardinality({i \in 1..Len(s) : s[i] < 0})

\* (orders_data == 0).sum()
CountZero(s) == Cardinality({i \in 1..Len(s) : s[i] = 0})

RECURSIVE SumSeq(_)
SumSeq(s) == IF s = <<>> THEN 0 ELSE Head(s) + SumSeq(Tail(s))

RECURSIVE InsertSorted(_, _)
InsertSorted(x, s) ==
    IF s = <<>> THEN <<x>>
    ELSE IF x <= Head(s) THEN <<x>> \o s
    ELSE <<Head(s)>> \o InsertSorted(x, Tail(s))

RECURSIVE SortAsc(_)
SortAsc(s) == IF s = <<>> THEN <<>> ELSE InsertSorted(Head(s), SortAsc(Tail(s)))

\* 4 * s.quantile(k/4), pandas' linear interpolation (s non-empty)
Quantile4(s, k) ==
    LET srt == SortAsc(s)
        h == k * (Len(s) - 1)
        lo == h \div 4
        r == h % 4
    IN  IF r = 0 THEN 4 * srt[lo + 1]
        ELSE 4 * srt[lo + 1] + r * (srt[lo + 2] - srt[lo + 1])

\* std / mean > 2.0 with the sample standard deviation (all values > 0)
HighVariability(s) ==
    LET n == Len(s)
        S == SumSeq(s)
        Q == SumSeq([i \in 1..n |-> s[i] * s[i]])
    IN  n * (n * Q - S * S) > 4 * S * S * (n - 1)

\* the number of values outside [Q1 - 1.5 IQR, Q3 + 1.5 IQR]
OutlierCount(s) ==
    LET q1 == Quantile4(s, 1)
        q3 == Quantile4(s, 3)
        iqr == q3 - q1
    IN  Cardinality({i \in 1..Len(s) :
                        \/ 8 * s[i] < 2 * q1 - 3 * iqr
                        \/ 8 * s[i] > 2 * q3 + 3 * iqr})

Issue(t, k) == [issue |-> t, n |-> k]

ReportMut(valid, issues, points, missing) ==
    [is_valid |-> valid /\ issues = <<>>, issues |-> issues,
     data_points |-> points, missing_values |-> missing]
Report(valid, issues, points, missing) ==
    [is_valid |-> valid, issues |-> issues, data_points |-> points,
     missing_values |-> missing]

\* the hard floor on the number of cleaned points
TooFewMut(n) == n < MinPoints - 1
TooFew(n) == n < MinPoints

\* returns <<cleaned series, quality report>>
PrepareAndValidate(inp) ==
    IF inp.kind = "notframe"
    THEN <<(<<>>), Report(FALSE, <<Issue("Data preparation error", 0)>>, 0, 0)>>
    ELSE IF inp.kind = "none" \/ Rows(inp) = <<>>
    THEN <<(<<>>), Report(FALSE, <<Issue("Empty or None DataFrame", 0)>>, 0, 0)>>
    ELSE IF inp.kind = "nocol"
    THEN <<(<<>>), Report(FALSE, <<Issue("Missing 'orders' column", 0)>>, 0, 0)>>
    ELSE
    LET raw == Rows(inp)
        original_length == Len(raw)
        missing_before == CountNA(raw)
        d1 == DropNA(raw)
        negative_count == CountNegative(d1)
        i1 == IF negative_count > 0
              THEN <<Issue("negative values removed", negative_count)>>
              ELSE <<>>
        d2 == IF negative_count > 0 THEN DropNegative(d1) ELSE d1
        zero_count == CountZero(d2)
        i2 == IF zero_count > 0
              THEN Append(i1, Issue("zero values adjusted", zero_count))
              ELSE i1
        d3 == IF zero_count > 0 THEN ReplaceZero(d2) ELSE d2
        final_length == Len(d3)
        valid == ~TooFew(final_length)
        i3 == IF TooFew(final_length)
              THEN Append(i2, Issue("Insufficient data points", final_length))
              ELSE IF 10 * final_length < 7 * original_length
              THEN Append(i2, Issue("Significant data loss", final_length))
              ELSE i2
        i4 == IF final_length >= MinPoints /\ HighVariability(d3)
              THEN Append(i3, Issue("High variability detected", 0))
              ELSE i3
        i5 == IF final_length >= MinPoints
                 /\ 10 * OutlierCount(d3) > final_length
              THEN Append(i4, Issue("Many outliers detected", OutlierCount(d3)))
              ELSE i4
    IN  <<d3, Report(valid, i5, final_length, missing_before)>>

---------------------------------------------------------------------------
(* The forecasting strategies.  A strategy returns None (NoResult) or a     *)
(* result with a forecast and a confidence (in percent).  Lib is the        *)
(* library profile: the numbers a fit may yield (values), the confidences   *)
(* (confs), whether a library call may raise (mayfail) and whether an       *)
(* alternative ARIMA order may fit after the primary one failed (retry).    *)

Result(f, c) == [ok |-> TRUE, forecast |-> f, confidence |-> c]
NoResult == [ok |-> FALSE, forecast |-> NaN, confidence |-> 0]

\* what method m may return when it returns a result
Results(m, Lib) == {Result(f, c) : f \in Lib.values, c \in Lib.confs[m]}

Outcome(r, orders, configs, fit) ==
    [result |-> r, arima_tried |-> orders, es_fitted |-> configs, fit |-> fit]

ArimaMinPoints == 10
SeasonalMinPoints == 14
EsSeasonalMinPoints == 24

ArimaOrder == <<2, 1, 2>>
AlternativeOrdersMut == << <<1, 0, 1>>, <<1, 1, 1>>, <<2, 0, 1>>, <<1, 1, 0>> >>
AlternativeOrders == << <<1, 1, 1>>, <<1, 0, 1>>, <<2, 0, 1>>, <<1, 1, 0>> >>

\* the loop over alternative_orders from index i; tried: the orders so far
RECURSIVE ArimaAlternatives(_, _, _, _)
ArimaAlternatives(i, tried, fit, Lib) ==
    IF i > Len(AlternativeOrders)
    THEN {Outcome(NoResult, tried, <<>>, fit)}
    ELSE LET t == Append(tried, AlternativeOrders[i])
         IN  (IF Lib.retry THEN {Outcome(r, t, <<>>, fit) : r \in Results("arima", Lib)}
              ELSE {})
             \cup (IF Lib.mayfail THEN ArimaAlternatives(i + 1, t, fit, Lib)
                   ELSE {})

\* _arima_forecast; fit: the primary fit succeeded, so self.model was set
ArimaForecast(n, Lib) ==
    IF n < ArimaMinPoints
    THEN {Outcome(NoResult, <<>>, <<>>, FALSE)}
    ELSE {Outcome(r, <<ArimaOrder>>, <<>>, TRUE) : r \in Results("arima", Lib)}
         \cup (IF Lib.mayfail
               THEN UNION {ArimaAlternatives(1, <<ArimaOrder>>, fit, Lib) :
                               fit \in BOOLEAN}
               ELSE {})

\* the configs list of _exponential_smoothing_forecast; has_sp: the dict
\* holds the key 'seasonal_periods'
EsConfigs ==
    << [trend |-> "add", seasonal |-> "add", has_sp |-> TRUE],
       [trend |-> "add", seasonal |-> "None", has_sp |-> FALSE],
       [trend |-> "None", seasonal |-> "None", has_sp |-> FALSE] >>

\* min(12, n // 3) if n >= 24 else None (0 stands for None)
EsSeasonalPeriod(n) ==
    IF n >= EsSeasonalMinPoints
    THEN (IF n \div 3 < 12 THEN n \div 3 ELSE 12)
    ELSE 0

\* the loop over configs from index i; fitted: the configurations fitted
RECURSIVE EsLoop(_, _, _, _)
EsLoop(i, n, fitted, Lib) ==
    IF i > Len(EsConfigs)
    THEN {Outcome(NoResult, <<>>, fitted, FALSE)}
    ELSE LET cfg == EsConfigs[i]
         IN  IF ~cfg.has_sp
             THEN \* config['seasonal_periods'] raises KeyError: next config
                  EsLoop(i + 1, n, fitted, Lib)
             ELSE LET sp == EsSeasonalPeriod(n)
                      used == [trend |-> cfg.trend,
                               seasonal |-> IF sp = 0 THEN "None"
                                            ELSE cfg.seasonal,
                               seasonal_periods |-> sp]
                      f == Append(fitted, used)
                  IN  {Outcome(r, <<>>, f, FALSE) : r \in Results("exponential_smoothing", Lib)}
                      \cup (IF Lib.mayfail THEN EsLoop(i + 1, n, f, Lib)
                            ELSE {})

\* _exponential_smoothing_forecast
ExponentialSmoothingForecast(n, Lib) == EsLoop(1, n, <<>>, Lib)

\* _seasonal_decompose_forecast
SeasonalDecomposeForecast(n, Lib) ==
    IF n < SeasonalMinPoints
    THEN {Outcome(NoResult, <<>>, <<>>, FALSE)}
    ELSE {Outcome(r, <<>>, <<>>, FALSE) : r \in Results("seasonal_decompose", Lib)}
         \cup (IF Lib.mayfail THEN {Outcome(NoResult, <<>>, <<>>, FALSE)}
               ELSE {})

\* _moving_average_forecast
MovingAverageForecast(n, Lib) ==
    {Outcome(r, <<>>, <<>>, FALSE) : r \in Results("moving_average", Lib)}
    \cup (IF Lib.mayfail THEN {Outcome(NoResult, <<>>, <<>>, FALSE)} ELSE {})

\* _trend_forecast
TrendForecast(n, Lib) ==
    {Outcome(r, <<>>, <<>>, FALSE) : r \in Results("trend_forecast", Lib)}
    \cup (IF Lib.mayfail THEN {Outcome(NoResult, <<>>, <<>>, FALSE)} ELSE {})

---------------------------------------------------------------------------
(* _hierarchical_forecast *)

Methods ==
    <<"arima", "exponential_smoothing", "seasonal_decompose",
      "moving_average", "trend_forecast">>

MethodNames == {Methods[i] : i \in 1..Len(Methods)}

Invoke(m, n, Lib) ==
    CASE m = "arima" -> ArimaForecast(n, Lib)
      [] m = "exponential_smoothing" -> ExponentialSmoothingForecast(n, Lib)
      [] m = "seasonal_decompose" -> SeasonalDecomposeForecast(n, Lib)
      [] m = "moving_average" -> MovingAverageForecast(n, Lib)
      [] m = "trend_forecast" -> TrendForecast(n, Lib)

Step(m, s) == [method |-> m, step |-> s]

\* result is not None and not np.isnan(result['forecast'])
Accepted(r) == r.ok /\ ~IsNaN(r.forecast)

\* self.model_performance[m]['total_attempts'] += 1
BumpAttemptsMut(perf, m) == perf
BumpAttempts(perf, m) ==
    [perf EXCEPT ![m].total_attempts = @ + 1]

\* self.model_performance[m]['success_count'] += 1
BumpSuccessMut(perf, m) == perf
BumpSuccess(perf, m) ==
    [perf EXCEPT ![m].success_count = @ + 1]

\* the state a cascade run starts in
RunStart(perf) ==
    [perf |-> perf, trace |-> <<>>, arima_tried |-> <<>>, es_fitted |-> <<>>,
     fit |-> FALSE, success |-> FALSE, forecast |-> NoneV, method |-> "none",
     confidence |-> 0]

\* what a strategy that was not accepted leaves behind
Detail(o) ==
    [arima_tried |-> o.arima_tried, es_fitted |-> o.es_fitted, fit |-> o.fit]

\* the for loop over methods from index i: the set of runs it can make
RECURSIVE Cascade(_, _, _, _)
Cascade(i, n, run, Lib) ==
    IF i > Len(Methods)
    THEN {run}
    ELSE LET m == Methods[i]
         IN  IF m \notin DOMAIN run.perf
             THEN \* the counter update raises KeyError: caught, continue
                  Cascade(i + 1, n,
                          [run EXCEPT !.trace = Append(@, Step(m, "keyerror"))],
                          Lib)
             ELSE LET outs == Invoke(m, n, Lib)
                      good == {o \in outs : Accepted(o.result)}
                      bad == {Detail(o) : o \in outs \ good}
                      After(d) ==
                          [run EXCEPT
                             !.perf = BumpAttempts(run.perf, m),
                             !.arima_tried = @ \o d.arima_tried,
                             !.es_fitted = @ \o d.es_fitted,
                             !.fit = @ \/ d.fit]
                  IN  {[After(o) EXCEPT
                          !.perf = BumpSuccess(After(o).perf, m),
                          !.trace = Append(@, Step(m, "accepted")),
                          !.success = TRUE,
                          !.forecast = o.result.forecast,
                          !.method = m,
                          !.confidence = o.result.confidence] : o \in good}
                      \cup UNION {
                          Cascade(i + 1, n,
                                  [After(d) EXCEPT
                                     !.trace = Append(@, Step(m, "failed"))],
                                  Lib) : d \in bad}

HierarchicalForecast(perf, n, Lib) == Cascade(1, n, RunStart(perf), Lib)

---------------------------------------------------------------------------
(* The result store and the fallback resolver *)

HistoryLimit == 100
Baseline == 100000

Entry(t, f, m, c) ==
    [timestamp |-> t, forecast |-> f, method |-> m, confidence |-> c]

\* if len(h) > 100: h = h[-100:]
TrimMut(h) == IF Len(h) > HistoryLimit THEN SubSeq(h, 1, HistoryLimit) ELSE h
Trim(h) ==
    IF Len(h) > HistoryLimit
    THEN SubSeq(h, Len(h) - HistoryLimit + 1, Len(h))
    ELSE h

\* self.forecast_history after _store_forecast_result
StoreHistoryMut(h, e) == Trim(<<e>> \o h)
StoreHistory(h, e) == Trim(Append(h, e))

\* h[-k:]
LastKMut(h, k) == IF Len(h) > k THEN SubSeq(h, 1, k) ELSE h
LastK(h, k) == IF Len(h) > k THEN SubSeq(h, Len(h) - k + 1, Len(h)) ELSE h

\* np.mean of a non-empty list of floats, to the thousandth
MeanFloat(fs) ==
    LET idx == 1..Len(fs)
    IN  IF \E i \in idx : IsNaN(fs[i]) THEN NaN
        ELSE IF PosInf \in {fs[i] : i \in idx} /\ NegInf \in {fs[i] : i \in idx}
        THEN NaN
        ELSE IF \E i \in idx : fs[i] = PosInf THEN PosInf
        ELSE IF \E i \in idx : fs[i] = NegInf THEN NegInf
        ELSE Num(SumSeq([i \in idx |-> fs[i].val]) \div Len(fs))

\* _get_fallback_forecast
FallbackForecastMut(lf, h) ==
    IF h # <<>>
    THEN LET last5 == LastK(h, 5)
         IN  MeanFloat([i \in 1..Len(last5) |-> last5[i].forecast])
    ELSE IF ~IsNone(lf) THEN lf
    ELSE Num(Baseline)
FallbackForecast(lf, h) ==
    IF ~IsNone(lf) THEN lf
    ELSE IF h # <<>>
    THEN LET last5 == LastK(h, 5)
         IN  MeanFloat([i \in 1..Len(last5) |-> last5[i].forecast])
    ELSE Num(Baseline)

\* forecast_value = max(0, round(forecast_result['forecast'], 2))
ForecastValue(f) == Max0(Round2(f))

---------------------------------------------------------------------------
(* The callers' inputs *)

\* the lengths at and just below each threshold of the code, and one above
FillCounts ==
    {0, MinPoints - 1, MinPoints, ArimaMinPoints - 1, ArimaMinPoints,
     SeasonalMinPoints - 1, SeasonalMinPoints, MaxFill}

\* a missing, a negative and a zero cell: one point is left after cleaning
DirtyPrefix == <<NA, Cell(-3), Cell(0)>>

Inputs ==
    {NoneInput, NotFrameInput, NoColumnInput}
    \cup {Frame(<<>>, k) : k \in FillCounts}
    \cup {Frame(DirtyPrefix, k) : k \in {MinPoints - 2, MinPoints - 1}}

\* the inputs of the long runs: a valid column and an invalid one
LongInputs == {Frame(<<>>, MinPoints), NoneInput}

\* every column of at most MaxPat dirty cells followed by ordinary rows
Patterns == UNION {[1..k -> DirtyCells] : k \in 0..MaxPat}

RichInputs == {Frame(p, k) : p \in Patterns, k \in 0..MaxRichFill}

\* no table, something that is not a table, a table without the column
HardInputs == {NoneInput, NotFrameInput, NoColumnInput}

\* the point counts that get_forecast_confidence tells apart
FairQuantityPoints == 7
GoodQuantityPoints == 14
FullQuantityPoints == 30

ConfLengths ==
    {MinPoints, FairQuantityPoints - 1, FairQuantityPoints,
     GoodQuantityPoints - 1, GoodQuantityPoints,
     FullQuantityPoints - 1, FullQuantityPoints}

\* leading cells that put the coefficient of variation in each of its tiers
ConfPatterns ==
    {<<>>, <<Cell(3), Cell(12)>>, <<Cell(1), Cell(20)>>, <<Cell(30)>>,
     <<Cell(1000)>>}

\* the inputs of get_forecast_confidence: every tier of length and of
\* variability, and two inputs that fail validation
ConfInputs ==
    {Frame(p, k - Len(p)) : p \in ConfPatterns, k \in ConfLengths}
    \cup {NoneInput, Frame(<<>>, MinPoints - 1)}

\* the inputs of forecast() in the runs that query the confidence
ConfForecastInputs == {Frame(<<>>, MinPoints), Frame(<<>>, SeasonalMinPoints)}

AllInputs ==
    Inputs \cup LongInputs \cup RichInputs \cup ConfInputs
    \cup ConfForecastInputs

\* _prepare_and_validate_data on every input, evaluated once
Validated == [inp \in AllInputs |-> PrepareAndValidate(inp)]

---------------------------------------------------------------------------
(* The engine *)

Counter == [success_count |-> 0, total_attempts |-> 0]

\* the keys __init__ gives self.model_performance
InitKeysMut ==
    {"arima", "exponential_smoothing", "seasonal_decompose", "moving_average",
     "trend_forecast"}
InitKeys == {"arima", "exponential", "moving_average"}

\* what an operation was given, what it did and what it returned; raw and
\* confidence are the accepted strategy's result
CallRecord(op, inp, valid, n, run, ret) ==
    [op |-> op, input |-> inp, valid |-> valid, n |-> n,
     trace |-> run.trace, arima_tried |-> run.arima_tried,
     es_fitted |-> run.es_fitted, success |-> run.success,
     method |-> run.method, raw |-> run.forecast,
     confidence |-> run.confidence, ret |-> ret]

NoRun == RunStart(<<>>)

\* no call is in progress
NoThreads ==
    [forecast |-> "idle", pending |-> NoneV, report |-> "idle",
     partial |-> NoneV]

\* __init__
Init ==
    /\ model_performance = [k \in InitKeys |-> Counter]
    /\ forecast_history = <<>>
    /\ last_forecast = NoneV
    /\ model = "None"
    /\ now = 0
    /\ call = CallRecord("init", NoneInput, FALSE, 0, NoRun, NoneV)
    /\ stored = <<>>
    /\ calls = 0
    /\ succeeded = NoneV
    /\ was_reset = FALSE
    /\ valid_calls = 0
    /\ threads = NoThreads

\* _store_forecast_result(value, method, confidence)
StoreForecastResultMut(value, method, confidence) ==
    /\ last_forecast' = value
    /\ forecast_history' = StoreHistory(forecast_history,
                                        Entry(now, value, "arima", 0))
    /\ now' = now + 1
    /\ stored' = Append(stored, Entry(now, value, method, confidence))
    /\ succeeded' = value
StoreForecastResult(value, method, confidence) ==
    /\ last_forecast' = value
    /\ forecast_history' = StoreHistory(forecast_history,
                                        Entry(now, value, method, confidence))
    /\ now' = now + 1
    /\ stored' = Append(stored, Entry(now, value, method, confidence))
    /\ succeeded' = value

\* return self._get_fallback_forecast(): nothing is stored
ReturnFallbackMut(inp, valid, n, run) ==
    /\ call' = CallRecord("forecast", inp, valid, n, run,
                          FallbackForecast(last_forecast, forecast_history))
    /\ last_forecast' = FallbackForecast(last_forecast, forecast_history)
    /\ UNCHANGED <<forecast_history, now, stored, succeeded>>
ReturnFallback(inp, valid, n, run) ==
    /\ call' = CallRecord("forecast", inp, valid, n, run,
                          FallbackForecast(last_forecast, forecast_history))
    /\ UNCHANGED <<forecast_history, last_forecast, now, stored, succeeded>>

\* forecast() without the is_valid gate
ForecastMut(inp, Lib) ==
    LET n == Len(Validated[inp][1])
        quality == Validated[inp][2]
    IN  \E run \in HierarchicalForecast(model_performance, n, Lib) :
          /\ valid_calls' = IF quality.is_valid THEN valid_calls + 1
                            ELSE valid_calls
          /\ UNCHANGED <<was_reset, threads>>
          /\ model_performance' = run.perf
          /\ model' = IF run.fit THEN "ARIMAResults" ELSE model
          /\ IF run.success
             THEN LET value == ForecastValue(run.forecast)
                  IN  /\ StoreForecastResult(value, run.method,
                                             run.confidence)
                      /\ call' = CallRecord("forecast", inp,
                                            quality.is_valid, n, run, value)
             ELSE ReturnFallback(inp, quality.is_valid, n, run)

\* forecast(orders_df) with the libraries behaving as Lib allows
Forecast(inp, Lib) ==
    LET n == Len(Validated[inp][1])
        quality == Validated[inp][2]
    IN  IF quality.is_valid = FALSE
        THEN /\ ReturnFallback(inp, FALSE, n, NoRun)
             /\ UNCHANGED <<model_performance, model, was_reset, valid_calls,
                            threads>>
        ELSE \E run \in HierarchicalForecast(model_performance, n, Lib) :
               /\ valid_calls' = valid_calls + 1
               /\ UNCHANGED <<was_reset, threads>>
               /\ model_performance' = run.perf
               /\ model' = IF run.fit THEN "ARIMAResults" ELSE model
               /\ IF run.success
                  THEN LET value == ForecastValue(run.forecast)
                       IN  /\ StoreForecastResult(value, run.method,
                                                  run.confidence)
                           /\ call' = CallRecord("forecast", inp, TRUE, n,
                                                 run, value)
                  ELSE ReturnFallback(inp, TRUE, n, run)

\* reset_performance_tracking()
ResetPerformanceTrackingMut ==
    /\ model_performance' = [k \in MethodNames |-> Counter]
    /\ forecast_history' = <<>>
    /\ last_forecast' = NoneV
    /\ stored' = <<>>
    /\ call' = CallRecord("reset", NoneInput, FALSE, 0, NoRun, NoneV)
    /\ was_reset' = TRUE
    /\ valid_calls' = 0
    /\ UNCHANGED threads
    /\ UNCHANGED <<model, now, calls, succeeded>>
ResetPerformanceTracking ==
    /\ model_performance' = [k \in MethodNames |-> Counter]
    /\ forecast_history' = <<>>
    /\ stored' = <<>>
    /\ call' = CallRecord("reset", NoneInput, FALSE, 0, NoRun, NoneV)
    /\ was_reset' = TRUE
    /\ valid_calls' = 0
    /\ UNCHANGED threads
    /\ UNCHANGED <<last_forecast, model, now, calls, succeeded>>

RECURSIVE SumField(_, _, _)
\* sum(perf[field] for perf in self.model_performance.values())
SumField(perf, keys, field) ==
    IF keys = {} THEN 0
    ELSE LET k == CHOOSE x \in keys : TRUE
         IN  perf[k][field] + SumField(perf, keys \ {k}, field)

\* round(s / a, 3) in thousandths
Rate(s, a) == RoundDiv(1000 * s, a)

\* the dictionary get_model_performance_report returns
PerformanceReportMut ==
    LET total_attempts ==
            SumField(model_performance, DOMAIN model_performance,
                     "total_attempts")
        total_successes ==
            SumField(model_performance, DOMAIN model_performance,
                     "success_count")
    IN  [total_forecasts |-> Len(forecast_history),
         methods_performance |->
             [k \in DOMAIN model_performance |->
                 [success_rate |->
                      IF model_performance[k].total_attempts > 0
                      THEN Rate(model_performance[k].success_count,
                                model_performance[k].total_attempts)
                      ELSE 0,
                  total_attempts |-> model_performance[k].total_attempts,
                  successful_forecasts |->
                      model_performance[k].success_count]],
         recent_forecasts |-> LastK(forecast_history, 10),
         last_forecast |-> last_forecast,
         overall_success_rate |->
             IF total_attempts > 0 THEN Rate(total_successes, total_attempts)
             ELSE 0]
PerformanceReport ==
    LET tried == {k \in DOMAIN model_performance :
                     model_performance[k].total_attempts > 0}
        total_attempts ==
            SumField(model_performance, DOMAIN model_performance,
                     "total_attempts")
        total_successes ==
            SumField(model_performance, DOMAIN model_performance,
                     "success_count")
    IN  [total_forecasts |-> Len(forecast_history),
         methods_performance |->
             [k \in tried |->
                 [success_rate |->
                      Rate(model_performance[k].success_count,
                           model_performance[k].total_attempts),
                  total_attempts |-> model_performance[k].total_attempts,
                  successful_forecasts |->
                      model_performance[k].success_count]],
         recent_forecasts |-> LastK(forecast_history, 10),
         last_forecast |-> last_forecast,
         overall_success_rate |->
             IF total_attempts > 0 THEN Rate(total_successes, total_attempts)
             ELSE 0]

\* get_model_performance_report()
GetModelPerformanceReportMut ==
    /\ call' = CallRecord("report", NoneInput, FALSE, 0, NoRun,
                          [PerformanceReport EXCEPT
                             !.total_forecasts = Len(stored)])
    /\ UNCHANGED <<model_performance, forecast_history, last_forecast, model,
                   now, stored, calls, succeeded, was_reset, valid_calls,
                   threads>>
GetModelPerformanceReport ==
    /\ call' = CallRecord("report", NoneInput, FALSE, 0, NoRun,
                          PerformanceReport)
    /\ UNCHANGED <<model_performance, forecast_history, last_forecast, model,
                   now, stored, calls, succeeded, was_reset, valid_calls,
                   threads>>

---------------------------------------------------------------------------
(* get_forecast_confidence.  The sub-scores are carried in tenths (1.0 is   *)
(* 10), the reported scores in thousandths; the performance score and the   *)
(* combined score are exact fractions.  The combined score is a sum of      *)
(* three float products: where the exact sum lies on a threshold of the     *)
(* level and the float sum falls one ulp short of it, `below` is TRUE.      *)

\* quantity_score in tenths
QuantityScore(n) ==
    IF n >= FullQuantityPoints THEN 10
    ELSE IF n >= GoodQuantityPoints THEN 8
    ELSE IF n >= FairQuantityPoints THEN 6
    ELSE 3

\* (std / mean) squared as a fraction, sample standard deviation (Len(s) > 1)
CvSquared(s) ==
    LET n == Len(s)
        S == SumSeq(s)
        Q == SumSeq([i \in 1..n |-> s[i] * s[i]])
    IN  [num |-> n * (n * Q - S * S), den |-> (n - 1) * S * S]

\* cv < 1 / r, where a is r squared
CvBelow(cv, a) == cv.num < (cv.den + a - 1) \div a

\* quality_score in tenths; cv is inf when the mean is not above 0
QualityScore(s) ==
    LET cv == CvSquared(s)
    IN  IF SumSeq(s) <= 0 THEN 3
        ELSE IF CvBelow(cv, 25) THEN 10
        ELSE IF CvBelow(cv, 4) THEN 8
        ELSE IF CvBelow(cv, 1) THEN 6
        ELSE 3

\* performance_score: total successes / total attempts, 0.7 by default
PerformanceScore(perf) ==
    LET a == SumField(perf, DOMAIN perf, "total_attempts")
        c == SumField(perf, DOMAIN perf, "success_count")
    IN  IF a > 0 THEN [num |-> c, den |-> a] ELSE [num |-> 7, den |-> 10]

\* <<quantity, quality, p.num, p.den>> whose exact combined score is 0.8 or
\* 0.4 and whose float sum q * 0.3 + l * 0.4 + p * 0.3 is 0.7999999999999999
\* or 0.39999999999999997
FloatBelowCases ==
    {<<10, 10, 1, 3>>, <<8, 3, 2, 15>>, <<6, 3, 1, 3>>, <<3, 6, 7, 30>>,
     <<3, 3, 19, 30>>}

FloatBelow(q, l, p) ==
    \E c \in FloatBelowCases :
        c[1] = q /\ c[2] = l /\ c[3] * p.den = c[4] * p.num

\* overall_confidence = quantity * 0.3 + quality * 0.4 + performance * 0.3
OverallConfidenceMut(q, l, p) ==
    [num |-> (4 * q + 3 * l) * p.den + 30 * p.num, den |-> 100 * p.den,
     below |-> FloatBelow(q, l, p)]
OverallConfidence(q, l, p) ==
    [num |-> (3 * q + 4 * l) * p.den + 30 * p.num, den |-> 100 * p.den,
     below |-> FloatBelow(q, l, p)]

\* overall_confidence >= t / 10 as the float comparison decides it
AtLeast(o, t) ==
    IF o.below THEN 10 * o.num > t * o.den ELSE 10 * o.num >= t * o.den

ConfidenceLevel(o) ==
    IF AtLeast(o, 8) THEN "High"
    ELSE IF AtLeast(o, 6) THEN "Medium"
    ELSE IF AtLeast(o, 4) THEN "Low"
    ELSE "Very Low"

\* <<quantity, quality, k>>: with performance k / 8 the exact combined score
\* ends in 5 ten-thousandths and round(overall_confidence, 3) goes up (the
\* float sum lies above the tie); for the other k / 8 it goes down.  With
\* fewer than 24 attempts there is no other tie.
OverallTieUp ==
    {<<10, 8, 1>>, <<10, 8, 3>>, <<10, 8, 5>>, <<10, 8, 7>>, <<10, 6, 1>>,
     <<10, 6, 3>>, <<10, 6, 5>>, <<8, 10, 5>>, <<8, 10, 7>>, <<8, 8, 1>>,
     <<8, 8, 3>>, <<8, 8, 5>>, <<8, 8, 7>>, <<8, 6, 3>>, <<8, 3, 7>>,
     <<6, 10, 1>>, <<6, 10, 3>>, <<6, 10, 5>>, <<6, 10, 7>>, <<6, 8, 3>>,
     <<6, 8, 5>>, <<3, 10, 3>>, <<3, 8, 1>>, <<3, 8, 5>>, <<3, 8, 7>>,
     <<3, 6, 7>>, <<3, 3, 3>>, <<3, 3, 7>>}

\* round(overall_confidence, 3) in thousandths
RoundOverall(q, l, p, o) ==
    LET n == 1000 * o.num
        qt == n \div o.den
        r == n % o.den
    IN  IF 2 * r < o.den THEN qt
        ELSE IF 2 * r > o.den THEN qt + 1
        ELSE IF \E k \in {1, 3, 5, 7} :
                    8 * p.num = k * p.den /\ <<q, l, k>> \in OverallTieUp
        THEN qt + 1
        ELSE qt

\* the recommendations list
Recommendations(n, cv, p) ==
    (IF n < FullQuantityPoints THEN <<"Collect more data points">> ELSE <<>>)
    \o (IF cv.num > cv.den \div 4
        THEN <<"High variability detected - investigate data patterns">>
        ELSE <<>>)
    \o (IF 10 * p.num < 7 * p.den
        THEN <<"Consider alternative forecasting methods">>
        ELSE <<>>)

\* what get_forecast_confidence computes from the series alone, once
Scored ==
    [inp \in ConfInputs |->
        LET data == Validated[inp][1]
        IN  IF Validated[inp][2].is_valid
            THEN [quantity |-> QuantityScore(Len(data)),
                  quality |-> QualityScore(data),
                  cv |-> CvSquared(data)]
            ELSE [quantity |-> 0, quality |-> 0, cv |-> [num |-> 0, den |-> 1]]]

\* the local variables of a call on valid input: the sub-scores sc, the
\* performance score p and the combined score o
ConfidenceLocals(sc, p, o) ==
    [kind |-> "locals", quantity |-> sc.quantity, quality |-> sc.quality,
     performance |-> p, overall |-> o]

\* the dictionary get_forecast_confidence returns; the coefficient of
\* variation is carried by its square
ConfidenceReport(quality_report, n, sc, p, o) ==
    IF ~quality_report.is_valid
    THEN [confidence_level |-> "Very Low",
          confidence_score |-> 100,
          data_quality |-> "Poor",
          issues |-> quality_report.issues,
          recommendations |->
              <<"Improve data quality", "Collect more data points">>]
    ELSE [confidence_level |-> ConfidenceLevel(o),
          confidence_score |-> RoundOverall(sc.quantity, sc.quality, p, o),
          data_quality |-> IF sc.quality >= 7 THEN "Good"
                           ELSE IF sc.quality >= 5 THEN "Fair"
                           ELSE "Poor",
          data_points |-> n,
          coefficient_of_variation |-> sc.cv,
          model_performance |-> Rate(p.num, p.den),
          issues |-> quality_report.issues,
          recommendations |-> Recommendations(n, sc.cv, p),
          component_scores |->
              [data_quantity |-> 100 * sc.quantity,
               data_quality |-> 100 * sc.quality,
               model_performance |-> Rate(p.num, p.den)]]

\* get_forecast_confidence(orders_df) with a hidden count of the query
GetForecastConfidenceMut(inp) ==
    \E quality_report \in {Validated[inp][2]}, sc \in {Scored[inp]},
       p \in {PerformanceScore(model_performance)} :
      \E o \in {OverallConfidence(sc.quantity, sc.quality, p)} :
        /\ call' = CallRecord("confidence", inp, quality_report.is_valid,
                              Len(Validated[inp][1]),
                              [NoRun EXCEPT !.forecast =
                                  IF quality_report.is_valid
                                  THEN ConfidenceLocals(sc, p, o)
                                  ELSE NoneV],
                              ConfidenceReport(quality_report,
                                               Len(Validated[inp][1]),
                                               sc, p, o))
        /\ model_performance' =
               [model_performance EXCEPT !["arima"].total_attempts = @ + 1]
        /\ UNCHANGED <<forecast_history, last_forecast, model,
                       now, stored, calls, succeeded, was_reset, valid_calls,
                   threads>>

\* get_forecast_confidence(orders_df): the locals are computed once each;
\* raw holds them
GetForecastConfidence(inp) ==
    \E quality_report \in {Validated[inp][2]}, sc \in {Scored[inp]},
       p \in {PerformanceScore(model_performance)} :
      \E o \in {OverallConfidence(sc.quantity, sc.quality, p)} :
        /\ call' = CallRecord("confidence", inp, quality_report.is_valid,
                              Len(Validated[inp][1]),
                              [NoRun EXCEPT !.forecast =
                                  IF quality_report.is_valid
                                  THEN ConfidenceLocals(sc, p, o)
                                  ELSE NoneV],
                              ConfidenceReport(quality_report,
                                               Len(Validated[inp][1]),
                                               sc, p, o))
        /\ UNCHANGED <<model_performance, forecast_history, last_forecast,
                       model, now, stored, calls, succeeded, was_reset,
                       valid_calls, threads>>

---------------------------------------------------------------------------
(* The library profiles and the specifications *)

\* confidences inside every method's range, one per method
MethodConfs ==
    [m \in MethodNames |->
        CASE m = "arima" -> {90}
          [] m = "exponential_smoothing" -> {80}
          [] m = "seasonal_decompose" -> {70}
          [] m = "moving_average" -> {60}
          [] m = "trend_forecast" -> {50}]

\* floats a fit can yield: a negative, a tie of round(x, 2), NaN, infinity;
\* every library call may raise; when the primary ARIMA order fails, so do
\* the alternative orders
EngineLib ==
    [values |-> {Num(-1254), Num(125), NaN, PosInf},
     confs |-> MethodConfs,
     mayfail |-> TRUE,
     retry |-> FALSE]

\* the libraries never raise and always yield the same number
QuietLib ==
    [values |-> {Num(2346)},
     confs |-> MethodConfs,
     mayfail |-> FALSE,
     retry |-> FALSE]

ForecastCall ==
    /\ calls < MaxCalls
    /\ calls' = calls + 1
    /\ \E inp \in Inputs : Forecast(inp, EngineLib)

Next ==
    \/ ForecastCall
    \/ ResetPerformanceTracking
    \/ GetModelPerformanceReport

Spec == Init /\ [][Next]_vars

\* long runs: many successful calls in a row, to fill the history, with
\* resets and reports in between
LongForecastCall ==
    /\ now < MaxLongCalls
    /\ \E inp \in LongInputs : Forecast(inp, QuietLib)
    /\ UNCHANGED calls

NextHistory ==
    \/ LongForecastCall
    \/ ResetPerformanceTracking
    \/ GetModelPerformanceReport

SpecHistory == Init /\ [][NextHistory]_vars

\* a short run that sets the engine up, then one call on any dirty column
\* around the validity floor; the libraries are quiet
SetupForecastCall ==
    /\ calls + 1 < MaxCalls
    /\ calls' = calls + 1
    /\ \E inp \in LongInputs : Forecast(inp, QuietLib)

RichForecastCall ==
    /\ calls < MaxCalls
    /\ calls' = MaxCalls
    /\ \E inp \in RichInputs \cup HardInputs : Forecast(inp, QuietLib)

NextInputs ==
    \/ SetupForecastCall
    \/ RichForecastCall
    \/ ResetPerformanceTracking

SpecInputs == Init /\ [][NextInputs]_vars

\* one number, and every library call may raise
FailingLib ==
    [values |-> {Num(2346)},
     confs |-> MethodConfs,
     mayfail |-> TRUE,
     retry |-> FALSE]

\* runs that query the confidence between forecasts and resets
ConfForecastCall ==
    /\ calls < MaxCalls
    /\ calls' = calls + 1
    /\ \E inp \in ConfForecastInputs : Forecast(inp, FailingLib)

ConfidenceCall == \E inp \in ConfInputs : GetForecastConfidence(inp)

NextConfidence ==
    \/ ConfForecastCall
    \/ ResetPerformanceTracking
    \/ ConfidenceCall

SpecConfidence == Init /\ [][NextConfidence]_vars

\* runs long enough for the history to outgrow the report's ten entries:
\* a column too short for ARIMA and one ARIMA fits
ReportInputs == {Frame(<<>>, MinPoints), Frame(<<>>, ArimaMinPoints)}

ReportForecastCall ==
    /\ calls < MaxReportCalls
    /\ calls' = calls + 1
    /\ \E inp \in ReportInputs : Forecast(inp, QuietLib)

NextReport ==
    \/ ReportForecastCall
    \/ ResetPerformanceTracking
    \/ GetModelPerformanceReport

SpecReport == Init /\ [][NextReport]_vars

\* the fallback resolver as a function of the two attributes it reads:
\* any last_forecast with any history of at most MaxHist entries
FallbackValues == {Num(120), Num(60000)}

FallbackHistories ==
    UNION {[1..k -> {Entry(0, f, "moving_average", 60) : f \in FallbackValues}] :
               k \in 0..MaxHist}

InitFallback ==
    /\ model_performance = [k \in InitKeys |-> Counter]
    /\ forecast_history \in FallbackHistories
    /\ last_forecast \in {NoneV} \cup FallbackValues
    /\ model = "None"
    /\ now = 0
    /\ call = CallRecord("init", NoneInput, FALSE, 0, NoRun, NoneV)
    /\ stored = <<>>
    /\ calls = 0
    /\ succeeded = NoneV
    /\ was_reset = FALSE
    /\ valid_calls = 0
    /\ threads = NoThreads

\* self._get_fallback_forecast()
GetFallbackForecast ==
    /\ call' = CallRecord("fallback", NoneInput, FALSE, 0, NoRun,
                          FallbackForecast(last_forecast, forecast_history))
    /\ UNCHANGED <<model_performance, forecast_history, last_forecast, model,
                   now, stored, calls, succeeded, was_reset, valid_calls,
                   threads>>

NextFallback == GetFallbackForecast

SpecFallback == InitFallback /\ [][NextFallback]_vars

\* the strategies as functions of the cleaned series: each is called on its
\* own, on a series of any length up to MaxSeries, with libraries that may
\* raise at every call and may fit any ARIMA order; ret holds what the
\* strategy returned and which models it fitted
StrategyLib ==
    [values |-> {Num(-1254), Num(125), NaN, PosInf},
     confs |-> MethodConfs,
     mayfail |-> TRUE,
     retry |-> TRUE]

SeriesLengths == 1..MaxSeries

\* a strategy called on a series of n points returned o
StrategyReturn(m, n, o) ==
    /\ call' = CallRecord(m, Frame(<<>>, n), TRUE, n, NoRun, o)
    /\ model' = IF o.fit THEN "ARIMAResults" ELSE model
    /\ UNCHANGED <<model_performance, forecast_history, last_forecast, now,
                   stored, succeeded, was_reset, valid_calls, threads>>

\* each behaviour calls one strategy, once, on a fresh engine
ArimaCall ==
    /\ calls = 0
    /\ calls' = calls + 1
    /\ \E n \in SeriesLengths :
         \E o \in ArimaForecast(n, StrategyLib) : StrategyReturn("arima", n, o)

ExponentialSmoothingCall ==
    /\ calls = 0
    /\ calls' = calls + 1
    /\ \E n \in SeriesLengths :
         \E o \in ExponentialSmoothingForecast(n, StrategyLib) :
           StrategyReturn("exponential_smoothing", n, o)

SeasonalDecomposeCall ==
    /\ calls = 0
    /\ calls' = calls + 1
    /\ \E n \in SeriesLengths :
         \E o \in SeasonalDecomposeForecast(n, StrategyLib) :
           StrategyReturn("seasonal_decompose", n, o)

MovingAverageCall ==
    /\ calls = 0
    /\ calls' = calls + 1
    /\ \E n \in SeriesLengths :
         \E o \in MovingAverageForecast(n, StrategyLib) :
           StrategyReturn("moving_average", n, o)

TrendCall ==
    /\ calls = 0
    /\ calls' = calls + 1
    /\ \E n \in SeriesLengths :
         \E o \in TrendForecast(n, StrategyLib) :
           StrategyReturn("trend_forecast", n, o)

NextStrategies ==
    \/ ArimaCall
    \/ ExponentialSmoothingCall
    \/ SeasonalDecomposeCall
    \/ MovingAverageCall
    \/ TrendCall

SpecStrategies == Init /\ [][NextStrategies]_vars

---------------------------------------------------------------------------
(* A forecast() call and a get_model_performance_report() call running in   *)
(* two threads on one engine, without a lock.  Each step is one statement   *)
(* that reads or writes the shared attributes; a report call does not span  *)
(* two forecast() calls.                                                    *)

\* the local variables of a forecast() call that is past the cascade
Pending(inp, valid, n, run, value) ==
    [input |-> inp, valid |-> valid, n |-> n, run |-> run, value |-> value]

\* forecast(): validation and the cascade, up to the call of
\* _store_forecast_result or of _get_fallback_forecast
ForecastBegin ==
    /\ threads.forecast = "idle"
    /\ threads.report = "idle"
    /\ now < MaxInterleavedStores
    /\ \E inp \in LongInputs :
         LET n == Len(Validated[inp][1])
             quality == Validated[inp][2]
         IN  IF quality.is_valid = FALSE
             THEN /\ threads' =
                        [threads EXCEPT
                           !.forecast = "return",
                           !.pending =
                               Pending(inp, FALSE, n, NoRun,
                                       FallbackForecast(last_forecast,
                                                        forecast_history))]
                  /\ UNCHANGED <<model_performance, model, valid_calls>>
             ELSE \E run \in HierarchicalForecast(model_performance, n,
                                                  QuietLib) :
                    /\ valid_calls' = valid_calls + 1
                    /\ model_performance' = run.perf
                    /\ model' = IF run.fit THEN "ARIMAResults" ELSE model
                    /\ threads' =
                          IF run.success
                          THEN [threads EXCEPT
                                  !.forecast = "store_last",
                                  !.pending =
                                      Pending(inp, TRUE, n, run,
                                              ForecastValue(run.forecast))]
                          ELSE [threads EXCEPT
                                  !.forecast = "return",
                                  !.pending =
                                      Pending(inp, TRUE, n, run,
                                              FallbackForecast(
                                                  last_forecast,
                                                  forecast_history))]
    /\ UNCHANGED <<forecast_history, last_forecast, now, call, stored, calls,
                   succeeded, was_reset>>

\* self.last_forecast = forecast_value
StoreLast ==
    /\ threads.forecast = "store_last"
    /\ last_forecast' = threads.pending.value
    /\ threads' = [threads EXCEPT !.forecast = "store_append"]
    /\ UNCHANGED <<model_performance, forecast_history, model, now, call,
                   stored, calls, succeeded, was_reset, valid_calls>>

\* self.forecast_history.append({...})
StoreAppend ==
    /\ threads.forecast = "store_append"
    /\ \E e \in {Entry(now, threads.pending.value, threads.pending.run.method,
                        threads.pending.run.confidence)} :
         /\ forecast_history' = Append(forecast_history, e)
         /\ stored' = Append(stored, e)
    /\ now' = now + 1
    /\ threads' = [threads EXCEPT !.forecast = "store_trim"]
    /\ UNCHANGED <<model_performance, last_forecast, model, call, calls,
                   succeeded, was_reset, valid_calls>>

\* if len(self.forecast_history) > 100: keep the last 100
StoreTrimMut ==
    /\ threads.forecast = "store_trim"
    /\ threads' = [threads EXCEPT !.forecast = "return"]
    /\ UNCHANGED <<model_performance, forecast_history, last_forecast, model,
                   now, call, stored, calls, succeeded, was_reset,
                   valid_calls>>
StoreTrim ==
    /\ threads.forecast = "store_trim"
    /\ forecast_history' = Trim(forecast_history)
    /\ threads' = [threads EXCEPT !.forecast = "return"]
    /\ UNCHANGED <<model_performance, last_forecast, model, now, call,
                   stored, calls, succeeded, was_reset, valid_calls>>

\* return forecast_value, or return the fallback value
ForecastReturn ==
    /\ threads.forecast = "return"
    /\ \E p \in {threads.pending} :
         /\ call' = CallRecord("forecast", p.input, p.valid, p.n, p.run,
                               p.value)
         /\ succeeded' = IF p.run.success THEN p.value ELSE succeeded
    /\ threads' = [threads EXCEPT !.forecast = "idle", !.pending = NoneV]
    /\ UNCHANGED <<model_performance, forecast_history, last_forecast, model,
                   now, stored, calls, was_reset, valid_calls>>

\* report = {'total_forecasts': len(self.forecast_history), ...}; `at` is
\* where the forecast() call stood when the report read the history
ReportBegin ==
    /\ threads.report = "idle"
    /\ threads' =
          [threads EXCEPT
             !.report = "methods",
             !.partial =
                 [total_forecasts |-> Len(forecast_history),
                  recent_forecasts |-> LastK(forecast_history, 10),
                  last_forecast |-> last_forecast,
                  at |-> threads.forecast]]
    /\ UNCHANGED <<model_performance, forecast_history, last_forecast, model,
                   now, call, stored, calls, succeeded, was_reset,
                   valid_calls>>

\* the loop over the counters, the overall rate, return report
ReportFinish ==
    /\ threads.report = "methods"
    /\ call' = CallRecord("report", NoneInput, FALSE, 0, NoRun,
                          [PerformanceReport EXCEPT
                             !.total_forecasts =
                                 threads.partial.total_forecasts,
                             !.recent_forecasts =
                                 threads.partial.recent_forecasts,
                             !.last_forecast = threads.partial.last_forecast])
    /\ threads' = [threads EXCEPT !.report = "idle", !.partial = NoneV]
    /\ UNCHANGED <<model_performance, forecast_history, last_forecast, model,
                   now, stored, calls, succeeded, was_reset, valid_calls>>

NextInterleaved ==
    \/ ForecastBegin
    \/ StoreLast
    \/ StoreAppend
    \/ StoreTrim
    \/ ForecastReturn
    \/ ReportBegin
    \/ ReportFinish

SpecInterleaved == Init /\ [][NextInterleaved]_vars

---------------------------------------------------------------------------
(* Properties *)

FiveMethods ==
    {"arima", "exponential_smoothing", "seasonal_decompose", "moving_average",
     "trend_forecast"}

PriorityOrder ==
    <<"arima", "exponential_smoothing", "seasonal_decompose",
      "moving_average", "trend_forecast">>

\* a step of the cascade in which the strategy itself was called
Invoked(st) == st.step \in {"failed", "accepted"}

AllFiveFailed(c) ==
    /\ Len(c.trace) = 5
    /\ \A j \in 1..5 : c.trace[j].step = "failed"

\* the cells of a table's column that survive cleaning, counted directly
UsablePoints(inp) ==
    Cardinality({i \in 1..Len(Rows(inp)) :
                    ~Rows(inp)[i].na /\ Rows(inp)[i].v >= 0})

\* C1: whatever the input and the engine state, the value forecast() returns
\* is a number (not None), is not NaN and is >= 0.
C1_ForecastNonNegative ==
    call.op = "forecast" =>
        /\ call.ret.kind \in {"num", "inf"}
        /\ (call.ret.kind = "num" => call.ret.val >= 0)
        /\ (call.ret.kind = "inf" => call.ret.val > 0)

\* C1 witness: a valid series on which all five strategies failed, answered
\* by the baseline
C1_Witness ==
    /\ call.op = "forecast"
    /\ call.valid
    /\ AllFiveFailed(call)
    /\ call.ret = Num(100000)

\* C2 as claimed: strategies run in the fixed priority order, each invoked
\* only after every higher-priority strategy was invoked and failed in the
\* same run, none after the first success, and the recorded method is the
\* first successful strategy.
C2_CascadeOrderClaim ==
    (call.op = "forecast" /\ call.valid) =>
        LET t == call.trace
        IN  /\ Len(t) >= 1
            /\ \A j \in 1..Len(t) :
                  /\ t[j].method = PriorityOrder[j]
                  /\ Invoked(t[j]) => \A i \in 1..(j - 1) : t[i].step = "failed"
                  /\ t[j].step = "accepted" =>
                        (j = Len(t) /\ call.method = t[j].method)

\* C3 as claimed: on a cleaned series of at least 10 points ARIMA is invoked
\* first, and when all five ARIMA orders fail Exponential Smoothing is the
\* strategy invoked next.
C3_ArimaThenExponentialClaim ==
    (call.op = "forecast" /\ call.valid /\ call.n >= 10) =>
        /\ call.trace[1].method = "arima"
        /\ Invoked(call.trace[1])
        /\ (call.trace[1].step = "failed" /\ Len(call.arima_tried) = 5) =>
              /\ Len(call.trace) >= 2
              /\ call.trace[2].method = "exponential_smoothing"
              /\ Invoked(call.trace[2])

AttemptsOf(perf, m) == IF m \in DOMAIN perf THEN perf[m].total_attempts ELSE 0
SuccessesOf(perf, m) == IF m \in DOMAIN perf THEN perf[m].success_count ELSE 0

\* C4 as claimed: in a cascade run every method the loop reaches gets exactly
\* one more attempt, one more success exactly when it is the accepted method,
\* and the counters of the methods not reached are unchanged.
C4_CountersPerRunClaim ==
    [][(call'.op = "forecast" /\ call'.valid) =>
          \A m \in FiveMethods :
             LET reached == \E j \in 1..Len(call'.trace) :
                                call'.trace[j].method = m
                 accepted == call'.success /\ call'.method = m
             IN  /\ AttemptsOf(model_performance', m) =
                        AttemptsOf(model_performance, m)
                        + (IF reached THEN 1 ELSE 0)
                 /\ SuccessesOf(model_performance', m) =
                        SuccessesOf(model_performance, m)
                        + (IF accepted THEN 1 ELSE 0)]_vars

\* C5 as claimed: in every reachable state, the one after construction
\* included, the engine holds exactly one counter for each of the five
\* methods.
C5_FiveCountersClaim == DOMAIN model_performance = FiveMethods

\* C6: a table whose column keeps fewer than 5 points after cleaning is
\* reported invalid, no strategy runs, and forecast() returns what the
\* fallback resolver yields in the engine state of the call.
C6_TooFewPointsFallback ==
    [][(call'.op = "forecast" /\ call'.input.kind = "frame"
        /\ UsablePoints(call'.input) < 5) =>
          /\ ~call'.valid
          /\ call'.trace = <<>>
          /\ ~call'.success
          /\ call'.ret = FallbackForecast(last_forecast, forecast_history)]_vars

\* C6 witness: a column of four usable points among dirty cells, answered
\* with the last stored forecast
C6_Witness ==
    /\ call.op = "forecast"
    /\ call.input.kind = "frame"
    /\ call.input.pat # <<>>
    /\ UsablePoints(call.input) = 4
    /\ ~call.valid
    /\ ~IsNone(last_forecast)
    /\ call.ret = last_forecast

\* C7: forecast() on input that fails validation invokes no strategy and
\* leaves the counters, the history and last_forecast as they were.
C7_InvalidInputChangesNothing ==
    [][(call'.op = "forecast" /\ ~call'.valid) =>
          /\ call'.trace = <<>>
          /\ model_performance' = model_performance
          /\ forecast_history' = forecast_history
          /\ last_forecast' = last_forecast]_vars

\* C7 witness: an invalid call on an engine that holds counters and history
C7_Witness ==
    /\ call.op = "forecast"
    /\ ~call.valid
    /\ forecast_history # <<>>
    /\ AttemptsOf(model_performance, "arima") > 0

\* C8: when no strategy of a run is accepted, the cascade reports failure,
\* forecast() returns the fallback resolver's value, the history and
\* last_forecast are unchanged and no successes counter moves.
C8_AllFailFallback ==
    [][(call'.op = "forecast" /\ call'.valid
        /\ Len(call'.trace) = 5
        /\ \A j \in 1..5 : call'.trace[j].step # "accepted") =>
          /\ ~call'.success
          /\ call'.method = "none"
          /\ call'.ret = FallbackForecast(last_forecast, forecast_history)
          /\ forecast_history' = forecast_history
          /\ last_forecast' = last_forecast
          /\ DOMAIN model_performance' = DOMAIN model_performance
          /\ \A m \in DOMAIN model_performance :
                model_performance'[m].success_count =
                    model_performance[m].success_count]_vars

\* C8 witness: all five strategies were invoked and failed, and the call
\* returned the forecast stored by an earlier call
C8_Witness ==
    /\ call.op = "forecast"
    /\ AllFiveFailed(call)
    /\ ~IsNone(last_forecast)
    /\ call.ret = last_forecast

\* ret is raw clamped to >= 0 and rounded to two decimals (ties to even)
ClampedRounded(raw, ret) ==
    IF raw.kind = "inf"
    THEN ret = (IF raw.val > 0 THEN raw ELSE Num(0))
    ELSE /\ ret.kind = "num"
         /\ ret.val >= 0
         /\ ret.val % 10 = 0
         /\ IF raw.val <= 0 THEN ret.val = 0
            ELSE LET d == IF ret.val >= raw.val THEN ret.val - raw.val
                          ELSE raw.val - ret.val
                 IN  /\ 2 * d <= 10
                     /\ (2 * d = 10 => (ret.val \div 10) % 2 = 0)

\* C9: a successful call returns the accepted forecast clamped and rounded,
\* sets last_forecast to it, and appends exactly one history entry holding
\* that value, the accepted method and its confidence.
C9_SuccessStoresResult ==
    [][(call'.op = "forecast" /\ call'.success) =>
          LET h == forecast_history
              h2 == forecast_history'
          IN  /\ ClampedRounded(call'.raw, call'.ret)
              /\ last_forecast' = call'.ret
              /\ \E j \in 1..Len(call'.trace) :
                    /\ call'.trace[j].step = "accepted"
                    /\ call'.trace[j].method = call'.method
              /\ Len(h2) = (IF Len(h) < 100 THEN Len(h) + 1 ELSE 100)
              /\ h2[Len(h2)].forecast = call'.ret
              /\ h2[Len(h2)].method = call'.method
              /\ h2[Len(h2)].confidence = call'.confidence
              /\ \A i \in 1..(Len(h2) - 1) :
                    h2[i] = h[i + Len(h) + 1 - Len(h2)]]_vars

\* C9 witness: a second successful call whose forecast 0.125 was rounded to
\* 0.12
C9_Witness ==
    /\ call.op = "forecast"
    /\ call.success
    /\ call.raw = Num(125)
    /\ call.ret = Num(120)
    /\ Len(forecast_history) = 2
    /\ forecast_history[2].method = call.method

\* C10: the history holds at most 100 entries, and after k successful calls
\* since construction or the last reset it holds exactly the min(k, 100)
\* most recent results, oldest first.
C10_HistoryBounded ==
    LET k == Len(stored)
        m == IF k < 100 THEN k ELSE 100
    IN  /\ Len(forecast_history) <= 100
        /\ Len(forecast_history) = m
        /\ \A i \in 1..m : forecast_history[i] = stored[k - m + i]

\* C10 witness: 150 successful calls, 100 entries kept, the 50 oldest gone
C10_Witness ==
    /\ Len(stored) = 150
    /\ Len(forecast_history) = 100
    /\ forecast_history[1] = stored[51]
    /\ forecast_history[100] = stored[150]

\* the forecasts of the last (at most) k entries of h, summed
SumLast(h, k) ==
    LET lo == IF Len(h) > k THEN Len(h) - k ELSE 0
    IN  SumSeq([i \in 1..(Len(h) - lo) |-> h[lo + i].forecast.val])

\* C11: the fallback resolver returns last_forecast when one is stored,
\* otherwise the mean of the last (up to) 5 history entries when the history
\* is not empty, otherwise 100.0.
C11_FallbackPreference ==
    call.op = "fallback" =>
        IF last_forecast # NoneV THEN call.ret = last_forecast
        ELSE IF Len(forecast_history) > 0
        THEN LET k == IF Len(forecast_history) < 5 THEN Len(forecast_history)
                      ELSE 5
             IN  /\ call.ret.kind = "num"
                 /\ k * call.ret.val = SumLast(forecast_history, 5)
        ELSE call.ret = Num(100000)

\* C11 witness: no stored forecast, six history entries of which the oldest
\* differs from the last five, answered with the mean of the last five
C11_Witness ==
    /\ call.op = "fallback"
    /\ last_forecast = NoneV
    /\ Len(forecast_history) = 6
    /\ forecast_history[1].forecast = Num(120)
    /\ \A i \in 2..6 : forecast_history[i].forecast = Num(60000)
    /\ call.ret = Num(60000)

\* a table whose 'orders' column has no rows
EmptySeries(inp) == inp.kind = "frame" /\ Rows(inp) = <<>>

\* C12: forecast() on an empty series returns 100.0 when no earlier call on
\* the engine has succeeded, and otherwise the value the most recent
\* successful call returned.
C12_EmptySeriesAnswer ==
    [][(call'.op = "forecast" /\ EmptySeries(call'.input)) =>
          call'.ret = (IF IsNone(succeeded) THEN Num(100000)
                       ELSE succeeded)]_vars

\* C12 witness: an empty series after a successful call and a reset that
\* emptied the history, answered with that call's value
C12_Witness ==
    /\ call.op = "forecast"
    /\ EmptySeries(call.input)
    /\ ~IsNone(succeeded)
    /\ forecast_history = <<>>
    /\ call.ret = succeeded

\* C13 as claimed: after reset_performance_tracking() the set of counters,
\* their values and the history equal those of a freshly constructed engine.
C13_ResetRestoresInitialClaim ==
    call.op = "reset" =>
        /\ model_performance = [k \in InitKeys |-> Counter]
        /\ forecast_history = <<>>

\* C14 as claimed: the report made right after a reset gives
\* total_forecasts = 0 and attempts = 0 and successes = 0 for every one of
\* the five methods.
C14_ReportAfterResetClaim ==
    [][(call.op = "reset" /\ call'.op = "report") =>
          /\ call'.ret.total_forecasts = 0
          /\ \A m \in FiveMethods :
                /\ m \in DOMAIN call'.ret.methods_performance
                /\ call'.ret.methods_performance[m].total_attempts = 0
                /\ call'.ret.methods_performance[m].successful_forecasts = 0]_vars

\* C14 amended: the report made right after a reset gives
\* total_forecasts = 0, an overall success rate of 0.0 and lists no method at
\* all (a method is listed only once it has an attempt), while the engine's
\* five counters are all 0.
C14_ReportAfterReset ==
    [][(call.op = "reset" /\ call'.op = "report") =>
          /\ call'.ret.total_forecasts = 0
          /\ call'.ret.overall_success_rate = 0
          /\ DOMAIN call'.ret.methods_performance = {}
          /\ \A m \in FiveMethods :
                /\ AttemptsOf(model_performance', m) = 0
                /\ SuccessesOf(model_performance', m) = 0
                /\ m \in DOMAIN model_performance']_vars

\* C14 witness: a report on an engine that made a successful forecast and
\* was then reset
C14_Witness ==
    /\ call.op = "report"
    /\ ~IsNone(call.ret.last_forecast)
    /\ call.ret.total_forecasts = 0
    /\ DOMAIN model_performance = FiveMethods
    /\ \A m \in FiveMethods : model_performance[m] = Counter

\* C15: get_forecast_confidence() leaves every counter, the history and
\* last_forecast as they were, and a second call on the same series right
\* after the first returns the same report.
C15_ConfidenceReadOnly ==
    [][call'.op = "confidence" =>
          /\ model_performance' = model_performance
          /\ forecast_history' = forecast_history
          /\ last_forecast' = last_forecast
          /\ (call.op = "confidence" /\ call.input = call'.input) =>
                call'.ret = call.ret]_vars

\* C15 witness: a confidence report on a valid series from an engine that
\* holds attempts, a failure and a stored forecast
C15_Witness ==
    /\ call.op = "confidence"
    /\ call.valid
    /\ forecast_history # <<>>
    /\ call.ret.component_scores.model_performance \in 1..999

\* every counter key the engine can hold
CounterKeys == FiveMethods \cup {"exponential"}

TotalAttempts ==
    AttemptsOf(model_performance, "arima")
    + AttemptsOf(model_performance, "exponential")
    + AttemptsOf(model_performance, "exponential_smoothing")
    + AttemptsOf(model_performance, "seasonal_decompose")
    + AttemptsOf(model_performance, "moving_average")
    + AttemptsOf(model_performance, "trend_forecast")

TotalSuccesses ==
    SuccessesOf(model_performance, "arima")
    + SuccessesOf(model_performance, "exponential")
    + SuccessesOf(model_performance, "exponential_smoothing")
    + SuccessesOf(model_performance, "seasonal_decompose")
    + SuccessesOf(model_performance, "moving_average")
    + SuccessesOf(model_performance, "trend_forecast")

NearestThousandth(r, c, a) ==
    LET d == IF 1000 * c >= r * a THEN 1000 * c - r * a ELSE r * a - 1000 * c
    IN  2 * d <= a

\* the report's values that do not depend on how methods are listed
ReportBasics(r) ==
    /\ r.total_forecasts = Len(forecast_history)
    /\ Len(r.recent_forecasts) =
          (IF Len(forecast_history) < 10 THEN Len(forecast_history) ELSE 10)
    /\ \A i \in 1..Len(r.recent_forecasts) :
          r.recent_forecasts[i] =
              forecast_history[Len(forecast_history)
                               - Len(r.recent_forecasts) + i]
    /\ r.last_forecast = last_forecast

\* C16 as claimed: the report changes nothing and gives the history length,
\* the last min(10, length) entries, last_forecast, for every method its
\* attempts and successes as the counters hold them, and an overall success
\* rate equal to total successes / total attempts (0.0 without attempts).
C16_ReportContentClaim ==
    [][call'.op = "report" =>
          /\ UNCHANGED <<model_performance, forecast_history, last_forecast>>
          /\ ReportBasics(call'.ret)
          /\ \A m \in DOMAIN model_performance :
                /\ m \in DOMAIN call'.ret.methods_performance
                /\ call'.ret.methods_performance[m].total_attempts =
                       model_performance[m].total_attempts
                /\ call'.ret.methods_performance[m].successful_forecasts =
                       model_performance[m].success_count
          /\ IF TotalAttempts > 0
             THEN call'.ret.overall_success_rate * TotalAttempts =
                      1000 * TotalSuccesses
             ELSE call'.ret.overall_success_rate = 0]_vars

\* C16 amended: the report changes nothing and gives the history length, the
\* last min(10, length) entries, last_forecast, the attempts and successes
\* of exactly the methods with at least one attempt, with their success rate
\* rounded to 3 decimals, and an overall success rate equal to total
\* successes / total attempts rounded to 3 decimals (0.0 without attempts).
C16_ReportContent ==
    [][call'.op = "report" =>
          /\ UNCHANGED <<model_performance, forecast_history, last_forecast>>
          /\ ReportBasics(call'.ret)
          /\ DOMAIN call'.ret.methods_performance =
                {m \in CounterKeys : AttemptsOf(model_performance, m) > 0}
          /\ \A m \in DOMAIN call'.ret.methods_performance :
                LET e == call'.ret.methods_performance[m]
                IN  /\ e.total_attempts = model_performance[m].total_attempts
                    /\ e.successful_forecasts =
                           model_performance[m].success_count
                    /\ NearestThousandth(e.success_rate,
                                         e.successful_forecasts,
                                         e.total_attempts)
          /\ IF TotalAttempts > 0
             THEN NearestThousandth(call'.ret.overall_success_rate,
                                    TotalSuccesses, TotalAttempts)
             ELSE call'.ret.overall_success_rate = 0]_vars

\* C16 witness: a report over eleven stored forecasts, of which it shows the
\* last ten, with 11 successes in 16 attempts reported as 0.688
C16_Witness ==
    /\ call.op = "report"
    /\ Len(forecast_history) = 11
    /\ Len(call.ret.recent_forecasts) = 10
    /\ call.ret.recent_forecasts[1] = forecast_history[2]
    /\ TotalAttempts = 16
    /\ TotalSuccesses = 11
    /\ call.ret.overall_success_rate = 688

\* the hard failures the claim lists: no or an empty table, no 'orders'
\* column, fewer than 5 points left after cleaning
ListedHardFailure(inp) ==
    \/ inp.kind = "none"
    \/ inp.kind = "nocol"
    \/ inp.kind = "frame" /\ Rows(inp) = <<>>
    \/ inp.kind = "frame" /\ UsablePoints(inp) < 5

\* C18 as claimed: validation fails only for the listed hard failures, and
\* a series with at least 5 clean points reaches the cascade whatever
\* advisory issues it carries.
C18_OnlyHardFailuresClaim ==
    call.op = "forecast" =>
        /\ ~call.valid <=> ListedHardFailure(call.input)
        /\ call.valid => call.trace # <<>>

\* C18 amended: validation fails only for the listed hard failures or when
\* preparing the input raises (input that is not a table); the advisory
\* issues never make it fail, and a series with at least 5 clean points
\* reaches the cascade whatever advisory issues it carries.
C18_OnlyHardFailures ==
    call.op = "forecast" =>
        /\ ~call.valid <=>
              (ListedHardFailure(call.input) \/ call.input.kind = "notframe")
        /\ (call.input.kind = "frame" /\ UsablePoints(call.input) >= 5) =>
              (call.valid /\ call.trace # <<>>)

\* C18 witness: a column with a negative value, a zero and a value of 1000
\* before five ordinary rows carries four advisory issues and is forecast
C18_Witness ==
    /\ call.op = "forecast"
    /\ call.input = Frame(<<Cell(-3), Cell(0), Cell(1000)>>, 5)
    /\ Len(Validated[call.input][2].issues) = 4
    /\ call.valid
    /\ call.success

\* a cell that cleaning keeps: not missing and not negative
Kept(c) == ~c.na /\ c.v >= 0

\* the column with the missing and negative cells removed and every zero
\* replaced by 1, in the original order
ExpectedClean(inp) ==
    LET kept == SelectSeq(Rows(inp), Kept)
    IN  [i \in 1..Len(kept) |-> IF kept[i].v = 0 THEN 1 ELSE kept[i].v]

\* C19: the cleaned series validation returns holds no missing, negative or
\* zero value; for a table with the column it is the column with missing and
\* negative entries removed and zeros replaced by 1, in the original order;
\* data_points is its length.
C19_CleanedSeries ==
    call.op = "forecast" =>
        LET cleaned == Validated[call.input][1]
            quality == Validated[call.input][2]
        IN  /\ \A i \in 1..Len(cleaned) : cleaned[i] \in Nat \ {0}
            /\ call.input.kind = "frame" => cleaned = ExpectedClean(call.input)
            /\ call.input.kind # "frame" => cleaned = <<>>
            /\ quality.data_points = Len(cleaned)
            /\ call.n = Len(cleaned)

\* C19 witness: zero, missing, negative, then five ordinary rows: the zero
\* became 1 and leads the six cleaned points
C19_Witness ==
    /\ call.op = "forecast"
    /\ call.input = Frame(<<Cell(0), NA, Cell(-3)>>, 5)
    /\ Validated[call.input][1] = <<1, 7, 7, 7, 7, 7>>
    /\ call.n = 6

\* C20 as claimed: a strategy's result is accepted only if its forecast is a
\* finite number, so no infinite value is stored in the history or returned
\* by forecast().
C20_OnlyFiniteAcceptedClaim ==
    /\ (call.op = "forecast" /\ call.success) => call.raw.kind = "num"
    /\ call.op = "forecast" => call.ret.kind = "num"
    /\ \A i \in 1..Len(forecast_history) :
          forecast_history[i].forecast.kind = "num"

\* the configurations the claim lists for a series of n points, as the
\* library is given them
ClaimedEsConfigs(n) ==
    << [trend |-> "add",
        seasonal |-> IF n >= 24 THEN "add" ELSE "None",
        seasonal_periods |-> IF n >= 24
                             THEN (IF n \div 3 < 12 THEN n \div 3 ELSE 12)
                             ELSE 0],
       [trend |-> "add", seasonal |-> "None", seasonal_periods |-> 0],
       [trend |-> "None", seasonal |-> "None", seasonal_periods |-> 0] >>

\* C21 as claimed: Exponential Smoothing fits its three configurations in
\* order, each later one whenever all earlier ones failed; when it returns
\* no result all three were fitted, the last with no trend and no seasonal
\* component.
C21_EsConfigOrderClaim ==
    call.op = "exponential_smoothing" =>
        LET fitted == call.ret.es_fitted
        IN  /\ Len(fitted) \in 1..3
            /\ \A i \in 1..Len(fitted) : fitted[i] = ClaimedEsConfigs(call.n)[i]
            /\ ~call.ret.result.ok =>
                  /\ Len(fitted) = 3
                  /\ fitted[3].trend = "None"
                  /\ fitted[3].seasonal = "None"

\* the five orders in the order the claim gives them
ClaimedOrders ==
    << <<2, 1, 2>>, <<1, 1, 1>>, <<1, 0, 1>>, <<2, 0, 1>>, <<1, 1, 0>> >>

C23_LengthThresholdsClaim ==
    [][(call'.op = "forecast" /\ call'.valid) =>
          LET t == call'.trace
              Counted(m) == /\ m \in DOMAIN model_performance'
                            /\ AttemptsOf(model_performance', m) =
                                   AttemptsOf(model_performance, m) + 1
          IN  /\ call'.n < 10 =>
                    /\ t[1] = Step("arima", "failed")
                    /\ call'.arima_tried = <<>>
                    /\ Counted("arima")
                    /\ Len(t) >= 2
                    /\ t[2].method = "exponential_smoothing"
                    /\ Invoked(t[2])
              /\ (call'.n < 14 /\ Len(t) >= 3) =>
                    /\ t[3] = Step("seasonal_decompose", "failed")
                    /\ Counted("seasonal_decompose")
                    /\ Len(t) >= 4
                    /\ t[4].method = "moving_average"
                    /\ Invoked(t[4])
              /\ Len(t) = 5 =>
                    /\ t[5].method = "trend_forecast"
                    /\ Invoked(t[5])
                    /\ Counted("trend_forecast")]_vars

\* C24 as claimed: when a report call interleaves with a forecast() call,
\* statement by statement and without a lock, every total_forecasts a
\* reader reads or is returned is at most 100, also between the append of a
\* history entry and the trim.
C24_ReportBoundClaim ==
    /\ threads.report = "methods" => threads.partial.total_forecasts <= 100
    /\ call.op = "report" => call.ret.total_forecasts <= 100

\* C24 amended: the report reads the history length as it is at that
\* statement and returns it; it can be 101, is never more than 101, and is
\* above 100 only when read between the append of a history entry and the
\* trim of that forecast() call.
C24_ReportBound ==
    /\ threads.report = "methods" =>
          /\ threads.partial.total_forecasts <= 101
          /\ threads.partial.total_forecasts > 100 =>
                threads.partial.at = "store_trim"
    /\ call.op = "report" => call.ret.total_forecasts <= 101
    /\ Len(forecast_history) > 100 => threads.forecast = "store_trim"

\* C24 witness: a report that returned 101 stored forecasts, read before a
\* trim that has since cut the history back to 100
C24_Witness ==
    /\ call.op = "report"
    /\ call.ret.total_forecasts = 101
    /\ Len(call.ret.recent_forecasts) = 10
    /\ Len(forecast_history) = 100

\* the methods whose successes counter a step raised
Raised ==
    {m \in DOMAIN model_performance' :
        m \in DOMAIN model_performance
        /\ model_performance'[m].success_count >
               model_performance[m].success_count}

\* C25: every counter the engine holds has 0 <= successes <= attempts; a
\* step that is not a reset keeps the set of counters and lowers none of
\* them; one forecast() call raises the successes of at most one method, by
\* one.
C25_CountersOrdered ==
    /\ [](\A m \in DOMAIN model_performance :
             /\ 0 <= model_performance[m].success_count
             /\ model_performance[m].success_count <=
                    model_performance[m].total_attempts)
    /\ [][call'.op # "reset" =>
             /\ DOMAIN model_performance' = DOMAIN model_performance
             /\ \A m \in DOMAIN model_performance :
                   /\ model_performance'[m].total_attempts >=
                          model_performance[m].total_attempts
                   /\ model_performance'[m].success_count >=
                          model_performance[m].success_count
             /\ Cardinality(Raised) <= 1
             /\ \A m \in Raised :
                   /\ call'.op = "forecast"
                   /\ call'.method = m
                   /\ model_performance'[m].success_count =
                          model_performance[m].success_count + 1]_vars

\* C25 witness: two calls after a reset; ARIMA failed once and succeeded
\* once, Exponential Smoothing succeeded in the call ARIMA failed in
C25_Witness ==
    /\ call.op = "forecast"
    /\ DOMAIN model_performance = FiveMethods
    /\ model_performance["arima"] =
          [success_count |-> 1, total_attempts |-> 2]
    /\ model_performance["exponential_smoothing"] =
          [success_count |-> 1, total_attempts |-> 1]
    /\ model_performance["moving_average"] = Counter

\* C26: with sequential calls a non-empty history comes with a stored
\* last_forecast equal to the value of the newest entry, so the resolver
\* never takes the mean of the history: every fallback value forecast()
\* returns is last_forecast when one is stored and 100.0 otherwise.
C26_FallbackNeverAverages ==
    /\ [](forecast_history # <<>> =>
             /\ ~IsNone(last_forecast)
             /\ last_forecast =
                    forecast_history[Len(forecast_history)].forecast)
    /\ [][(call'.op = "forecast" /\ ~call'.success) =>
             /\ ~(IsNone(last_forecast) /\ forecast_history # <<>>)
             /\ call'.ret = (IF IsNone(last_forecast) THEN Num(100000)
                             ELSE last_forecast)]_vars

\* C26 witness: a forecast of 0.12 was stored, and the next call, in which
\* all strategies failed, returned it
C26_Witness ==
    /\ call.op = "forecast"
    /\ call.valid
    /\ ~call.success
    /\ Len(forecast_history) = 1
    /\ forecast_history[1].forecast = Num(120)
    /\ call.ret = Num(120)

\* the three strategies a never-reset engine has no counter for
Uncounted == {"exponential_smoothing", "seasonal_decompose", "trend_forecast"}

C28_ResetKeepsLastForecast ==
    [][/\ call'.op = "reset" => last_forecast' = last_forecast
       /\ (was_reset /\ stored = <<>> /\ ~IsNone(succeeded)) =>
             /\ last_forecast = succeeded
             /\ (call'.op = "forecast" /\ ~call'.valid) =>
                   call'.ret = succeeded
             /\ call'.op = "report" =>
                   /\ call'.ret.total_forecasts = 0
                   /\ call'.ret.last_forecast = succeeded
                   /\ ~IsNone(call'.ret.last_forecast)]_vars

\* C28 witness: a forecast of 0.12 succeeded, the engine was reset, and a
\* call without a table then returned 0.12
C28_Witness ==
    /\ call.op = "forecast"
    /\ call.input = NoneInput
    /\ was_reset
    /\ stored = <<>>
    /\ forecast_history = <<>>
    /\ succeeded = Num(120)
    /\ call.ret = Num(120)

\* C29: in every state after a reset the engine holds the five counters,
\* the attempts of ARIMA equal the number of forecast() calls on valid
\* input since the reset, and the attempts of every later method in
\* priority order equal the attempts minus the successes of the method
\* before it.
C29_CounterChain ==
    was_reset =>
        /\ DOMAIN model_performance = FiveMethods
        /\ model_performance["arima"].total_attempts = valid_calls
        /\ \A i \in 1..4 :
              model_performance[PriorityOrder[i + 1]].total_attempts =
                  model_performance[PriorityOrder[i]].total_attempts
                  - model_performance[PriorityOrder[i]].success_count

\* C29 witness: two valid calls after a reset, ARIMA failed in both,
\* Exponential Smoothing succeeded in one, and in the other Seasonal
\* Decomposition failed and Moving Average succeeded
C29_Witness ==
    /\ was_reset
    /\ valid_calls = 2
    /\ call.op = "forecast"
    /\ model_performance =
          [arima |-> [success_count |-> 0, total_attempts |-> 2],
           exponential_smoothing |-> [success_count |-> 1, total_attempts |-> 2],
           seasonal_decompose |-> [success_count |-> 0, total_attempts |-> 1],
           moving_average |-> [success_count |-> 1, total_attempts |-> 1],
           trend_forecast |-> [success_count |-> 0, total_attempts |-> 0]]

\* C30: with sequential calls the successes counters of all methods add up
\* to the number of forecast() calls that stored a history entry since
\* construction or the last reset, and the report's total_forecasts is the
\* minimum of 100 and that number.
C30_SuccessesMatchStores ==
    /\ TotalSuccesses = Len(stored)
    /\ DOMAIN model_performance \subseteq CounterKeys
    /\ call.op = "report" =>
          call.ret.total_forecasts =
              (IF Len(stored) < 100 THEN Len(stored) ELSE 100)

\* C30 witness: a report after 150 stored forecasts: 150 successes counted,
\* total_forecasts = 100
C30_Witness ==
    /\ call.op = "report"
    /\ Len(stored) = 150
    /\ TotalSuccesses = 150
    /\ call.ret.total_forecasts = 100

===========================================================================
